---- MODULE Spec2Model ----
(***************************************************************************)
(* Model of C-Shell/c_shell.c: the read - tokenize - dispatch - execute    *)
(* loop of the "shh" command interpreter, together with the child          *)
(* processes it creates and the part of the operating system it talks to   *)
(* (standard input, the working directory, fork/execvp/waitpid).           *)
(*                                                                         *)
(* Representation                                                          *)
(*  - a C string is a sequence of one-character strings; the terminator    *)
(*    '\0' is the element NUL, the bell '\a' is the element BEL;           *)
(*  - a char* into the line buffer is a 1-based index into `buffer`, and   *)
(*    the null pointer is NULL (0);                                        *)
(*  - `out` and `err` hold what has been written to standard output and    *)
(*    standard error since the last line was returned by shh_read_line     *)
(*    (the streams themselves are the concatenation of these windows);     *)
(*    they are written at the level of the printf/fprintf/perror calls;    *)
(*  - waitpid is modelled for a caller whose SIGCHLD disposition is the    *)
(*    default and who installs no signal handler (the program installs     *)
(*    none): it blocks until the child has a state change to report.       *)
(***************************************************************************)
EXTENDS Integers, Sequences, FiniteSets, TLC

(* ---------------------------------------------------------------------- *)
(* Bounds of the model                                                     *)
(* ---------------------------------------------------------------------- *)

\* number of lines, drawn from SampleLines, that standard input holds
MaxLines == 2

(* ---------------------------------------------------------------------- *)
(* Program constants                                                       *)
(* ---------------------------------------------------------------------- *)

SHH_TOK_BUFSIZE == 1024

SHH_RL_BUFSIZE == 1024

EXIT_SUCCESS == 0

EXIT_FAILURE == 1

NULL == 0

NUL == "\\0"

BEL == "\\a"

EOF == "EOF"

\* the delimiter set without the bell
SHH_TOK_DELIM_nobell == {" ", "\t", "\n", "\r"}

SHH_TOK_DELIM == {" ", "\t", "\n", "\r", BEL}

builtin_str == << <<"c", "d">>, <<"h", "e", "l", "p">>, <<"e", "x", "i", "t">> >>

\* the handler table out of step with the name table
builtin_func_swapped == <<"shh_cd", "shh_exit", "shh_help">>

builtin_func == <<"shh_cd", "shh_help", "shh_exit">>

shh_num_builtins == Len(builtin_str)

(* ---------------------------------------------------------------------- *)
(* The environment: file system, programs, signals                         *)
(* ---------------------------------------------------------------------- *)

\* the directories that exist (and may be entered)
Dirs == { <<"/">>, <<"/", "t", "m", "p">>, <<"/", "t", "m", "p", "/", "a">> }

InitialDir == <<"/">>

\* the program names execvp can resolve through the search path
Programs == { <<"l", "s">> }

\* exit codes of a program that runs to completion
ExitCodes == {0, 2}

\* signals whose default action terminates the process (SIGINT, SIGKILL)
KillSignals == {2, 9}

\* signals whose default action stops the process (SIGSTOP)
StopSignals == {19}

(* ---------------------------------------------------------------------- *)
(* Standard input                                                          *)
(* ---------------------------------------------------------------------- *)

SampleLines ==
    { <<>>,
      <<" ", "\t", "\r", BEL>>,
      <<"c", "d">>,
      <<"c", "d", " ", "/", "t", "m", "p", " ", "/", "n", "o">>,
      <<"c", "d", " ", "/", "n", "o", " ", "/", "t", "m", "p">>,
      <<"c", "d", "\t", "a">>,
      <<"h", "e", "l", "p", " ", "m", "e">>,
      <<"e", "x", "i", "t">>,
      <<"e", "x", "i", "t", " ", "1">>,
      <<"E", "x", "i", "t">>,
      <<"e", "x", "i", "t", "t">>,
      <<"l", "s", " ", "e", "x", "i", "t">>,
      <<" ", "l", "s", BEL, " ">> }

\* a line long enough to make both buffers grow
LongLine == [i \in 1..(2 * SHH_TOK_BUFSIZE - 1) |-> IF i % 2 = 1 THEN "a" ELSE " "]

\* a line whose length is exactly the growth increment of the line buffer
FullLine == [i \in 1..SHH_RL_BUFSIZE |-> IF i % 2 = 1 THEN "a" ELSE " "]

RECURSIVE Streams(_)
Streams(n) ==
    IF n = 0 THEN { <<>> }
    ELSE LET shorter == Streams(n - 1)
         IN  shorter \cup { l \o <<"\n">> \o s : l \in SampleLines, s \in shorter }

\* the contents standard input may have: newline-terminated lines, the last
\* one possibly cut by the end of the stream
Inputs ==
    Streams(MaxLines)
      \cup { s \o l : s \in Streams(MaxLines - 1), l \in SampleLines \ { <<>> } }
      \cup { LongLine \o <<"\n">>, FullLine \o <<"\n">>, FullLine }

\* the longest line over Alphabet that standard input holds in TokInputs
MaxLen == 5

\* two letters and three of the delimiters
Alphabet == {"a", "b", " ", "\t", BEL}

\* the strings over Alphabet of length n or less
RECURSIVE Lines(_)
Lines(n) ==
    IF n = 0 THEN { <<>> }
    ELSE LET shorter == Lines(n - 1)
         IN  shorter \cup { Append(l, c) : l \in shorter, c \in Alphabet }

\* standard input holding one line: any short line over Alphabet, or one of
\* the sample lines
TokInputs == { l \o <<"\n">> : l \in Lines(MaxLen) \cup SampleLines }

(* ---------------------------------------------------------------------- *)
(* C library and system calls, as pure functions                           *)
(* ---------------------------------------------------------------------- *)

\* the growth test written with > instead of >=
BufferFull_late(pos, size) == pos > size

\* if (position >= bufsize): the array is full and must grow
BufferFull(pos, size) == pos >= size

\* buf[i] = v for a 0-based index i into an array whose first Len(buf)
\* cells have been written
Store(buf, i, v) ==
    IF i < Len(buf) THEN [buf EXCEPT ![i + 1] = v] ELSE Append(buf, v)

\* the C string that starts at the 1-based index p of buf
RECURSIVE CStr(_, _)
CStr(buf, p) ==
    IF p > Len(buf) \/ buf[p] = NUL THEN <<>> ELSE <<buf[p]>> \o CStr(buf, p + 1)

\* strcmp cut down to a comparison of the first Len(s2) characters
RECURSIVE strcmp_prefix(_, _)
strcmp_prefix(s1, s2) ==
    IF s2 = <<>> THEN 0
    ELSE IF s1 = <<>> THEN 1
    ELSE IF Head(s1) # Head(s2) THEN 1
    ELSE strcmp_prefix(Tail(s1), Tail(s2))

RECURSIVE strcmp(_, _)
strcmp(s1, s2) ==
    IF s1 = <<>> /\ s2 = <<>> THEN 0
    ELSE IF s1 = <<>> \/ s2 = <<>> THEN 1
    ELSE IF Head(s1) # Head(s2) THEN 1
    ELSE strcmp(Tail(s1), Tail(s2))

\* a skip of one delimiter at most
SkipDelim_once(buf, p) == IF buf[p] \in SHH_TOK_DELIM THEN p + 1 ELSE p

\* strspn: the first index at or after p whose character is not a delimiter
RECURSIVE SkipDelim(_, _)
SkipDelim(buf, p) ==
    IF buf[p] \in SHH_TOK_DELIM THEN SkipDelim(buf, p + 1) ELSE p

\* strcspn: the first index at or after p that holds a delimiter or NUL
RECURSIVE ScanToken(_, _)
ScanToken(buf, p) ==
    IF buf[p] = NUL \/ buf[p] \in SHH_TOK_DELIM THEN p ELSE ScanToken(buf, p + 1)

\* strtok resuming on the terminator it has just written
strtok_stuck(buf, p) ==
    LET b == SkipDelim(buf, p)
    IN  IF buf[b] = NUL
        THEN [token |-> NULL, buf |-> buf, save |-> b]
        ELSE LET e == ScanToken(buf, b)
             IN  IF buf[e] = NUL
                 THEN [token |-> b, buf |-> buf, save |-> e]
                 ELSE [token |-> b, buf |-> [buf EXCEPT ![e] = NUL], save |-> e]

\* strtok resumed at index p of buf: the token found (NULL if none), the
\* buffer with the token's delimiter overwritten, and the next resume point
strtok(buf, p) ==
    LET b == SkipDelim(buf, p)
    IN  IF buf[b] = NUL
        THEN [token |-> NULL, buf |-> buf, save |-> b]
        ELSE LET e == ScanToken(buf, b)
             IN  IF buf[e] = NUL
                 THEN [token |-> b, buf |-> buf, save |-> e]
                 ELSE [token |-> b, buf |-> [buf EXCEPT ![e] = NUL], save |-> e + 1]

\* the directory a path names when resolved from directory d
Resolve(d, path) ==
    IF path # <<>> /\ Head(path) = "/" THEN path
    ELSE IF d = <<"/">> THEN d \o path
    ELSE d \o <<"/">> \o path

\* chdir(path) called in directory d: return value and resulting directory
chdir(d, path) ==
    IF Resolve(d, path) \in Dirs
    THEN [ret |-> 0, cwd |-> Resolve(d, path), errno |-> "OK"]
    ELSE [ret |-> -1, cwd |-> d, errno |-> "No such file or directory"]

perror(s, errno) == s \o ": " \o errno \o "\n"

\* the text printf("%s") writes for a C string
RECURSIVE Text(_)
Text(s) == IF s = <<>> THEN "" ELSE Head(s) \o Text(Tail(s))

\* wait statuses as waitpid encodes them
W_EXITCODE(code) == code * 256

W_TERMSIG(sig) == sig

W_STOPCODE(sig) == sig * 256 + 127

WIFEXITED(s) == (s % 128) = 0

\* WIFSIGNALED without the exclusion of the stop code 0x7f
WIFSIGNALED_stopped(s) == (s % 128) # 0

WIFSIGNALED(s) == (s % 128) # 0 /\ (s % 128) # 127

WIFSTOPPED(s) == (s % 256) = 127

(* ---------------------------------------------------------------------- *)
(* State                                                                   *)
(* ---------------------------------------------------------------------- *)

VARIABLES
    stdin,         \* the characters of standard input
    inPos,         \* 1-based index of the next character getchar returns
    eof,           \* end-of-file indicator of the stdin stream
    pc,            \* position of the interpreter process in the program
    buffer,        \* shh_read_line: buffer, then shh_loop: line
    position,      \* shh_read_line: position
    bufsize,       \* shh_read_line: bufsize
    tokens,        \* shh_split_line: tokens, then shh_loop: args
    tok_position,  \* shh_split_line: position
    tok_bufsize,   \* shh_split_line: bufsize
    token,         \* shh_split_line: token
    saveptr,       \* strtok's resume point
    status,        \* shh_loop: status
    exitCode,      \* exit status of the interpreter process (-1: running)
    cwd,           \* working directory of the interpreter process
    children,      \* un-reaped child processes of the interpreter, by pid
    nextpid,       \* the pid the next successful fork returns
    pid,           \* shh_launch: pid
    wstatus,       \* shh_launch: status
    called,        \* the function shh_execute called last, and its argument
    out,           \* written to standard output since the last line read
    err            \* written to standard error since the last line read

vars == <<stdin, inPos, eof, pc, buffer, position, bufsize, tokens,
          tok_position, tok_bufsize, token, saveptr, status, exitCode, cwd,
          children, nextpid, pid, wstatus, called, out, err>>

inputVars == <<stdin, inPos, eof>>

readVars == <<buffer, position, bufsize>>

splitVars == <<tokens, tok_position, tok_bufsize, token, saveptr>>

launchVars == <<children, nextpid, pid, wstatus>>

procVars == <<launchVars, called>>

\* the state of the process and of its environment when main starts
Started ==
    /\ inPos = 1
    /\ eof = FALSE
    /\ pc = "prompt"
    /\ buffer = <<>>
    /\ position = 0
    /\ bufsize = 0
    /\ tokens = <<>>
    /\ tok_position = 0
    /\ tok_bufsize = 0
    /\ token = NULL
    /\ saveptr = NULL
    /\ status = 1
    /\ exitCode = -1
    /\ cwd = InitialDir
    /\ children = << >>
    /\ nextpid = 1
    /\ pid = 0
    /\ wstatus = 0
    /\ called = [func |-> "none", args |-> <<>>]
    /\ out = <<>>
    /\ err = <<>>

Init == stdin \in Inputs /\ Started

\* a single line of standard input, being any short line over Alphabet
InitTok == stdin \in TokInputs /\ Started

AllocationError == "shh: allocation error\n"

\* the diagnostic without the exit(EXIT_FAILURE) that follows it
AllocationFailure_noexit ==
    /\ err' = Append(err, AllocationError)
    /\ UNCHANGED <<exitCode, pc>>

\* fprintf(stderr, "shh: allocation error\n"); exit(EXIT_FAILURE);
AllocationFailure ==
    /\ err' = Append(err, AllocationError)
    /\ exitCode' = EXIT_FAILURE
    /\ pc' = "exited"

(* ---------------------------------------------------------------------- *)
(* shh_loop: prompt                                                        *)
(* ---------------------------------------------------------------------- *)

Prompt ==
    /\ pc = "prompt"
    /\ out' = Append(out, "> ")
    /\ pc' = "read_line"
    /\ UNCHANGED <<inputVars, readVars, splitVars, status, exitCode, cwd,
                   procVars, err>>

(* ---------------------------------------------------------------------- *)
(* shh_read_line                                                           *)
(* ---------------------------------------------------------------------- *)

ReadLineEnter ==
    /\ pc = "read_line"
    /\ bufsize' = SHH_RL_BUFSIZE
    /\ position' = 0
    /\ buffer' = <<>>
    /\ pc' = "getchar"
    /\ UNCHANGED <<inputVars, splitVars, status, exitCode, cwd, procVars,
                   out, err>>

ReadLineAllocFail ==
    /\ pc = "read_line"
    /\ AllocationFailure
    /\ UNCHANGED <<inputVars, readVars, splitVars, status, cwd, procVars, out>>

getchar == IF eof \/ inPos > Len(stdin) THEN EOF ELSE stdin[inPos]

\* shh_read_line keeping the newline in the line, as fgets does
ReadLineReturn_keepnl ==
    /\ pc = "getchar"
    /\ getchar = EOF \/ getchar = "\n"
    /\ eof' = (eof \/ getchar = EOF)
    /\ inPos' = IF getchar = EOF THEN inPos ELSE inPos + 1
    /\ buffer' = IF getchar = EOF
                 THEN Store(buffer, position, NUL)
                 ELSE Store(Store(buffer, position, "\n"), position + 1, NUL)
    /\ position' = IF getchar = EOF THEN position ELSE position + 1
    /\ out' = <<>>
    /\ err' = <<>>
    /\ pc' = "split_line"
    /\ UNCHANGED <<stdin, bufsize, splitVars, status, exitCode, cwd, procVars>>

\* c is EOF or '\n': terminate the buffer and return it
ReadLineReturn ==
    /\ pc = "getchar"
    /\ getchar = EOF \/ getchar = "\n"
    /\ eof' = (eof \/ getchar = EOF)
    /\ inPos' = IF getchar = EOF THEN inPos ELSE inPos + 1
    /\ buffer' = Store(buffer, position, NUL)
    /\ out' = <<>>
    /\ err' = <<>>
    /\ pc' = "split_line"
    /\ UNCHANGED <<stdin, position, bufsize, splitVars, status, exitCode,
                   cwd, procVars>>

\* any other c: store it, and grow the buffer when it is full
ReadLineChar ==
    /\ pc = "getchar"
    /\ getchar # EOF /\ getchar # "\n"
    /\ inPos' = inPos + 1
    /\ buffer' = Store(buffer, position, getchar)
    /\ position' = position + 1
    /\ IF BufferFull(position + 1, bufsize)
       THEN \/ /\ bufsize' = bufsize + SHH_RL_BUFSIZE
               /\ UNCHANGED <<pc, exitCode, err>>
            \/ /\ AllocationFailure
               /\ UNCHANGED bufsize
       ELSE UNCHANGED <<bufsize, pc, exitCode, err>>
    /\ UNCHANGED <<stdin, eof, splitVars, status, cwd, procVars, out>>

(* ---------------------------------------------------------------------- *)
(* shh_split_line                                                          *)
(* ---------------------------------------------------------------------- *)

\* allocate the token array and take the first token of the line
SplitLineEnter ==
    /\ pc = "split_line"
    /\ tok_bufsize' = SHH_TOK_BUFSIZE
    /\ tok_position' = 0
    /\ tokens' = <<>>
    /\ LET r == strtok(buffer, 1)
       IN  /\ token' = r.token
           /\ buffer' = r.buf
           /\ saveptr' = r.save
    /\ pc' = "tokenize"
    /\ UNCHANGED <<inputVars, position, bufsize, status, exitCode, cwd,
                   procVars, out, err>>

SplitLineAllocFail ==
    /\ pc = "split_line"
    /\ AllocationFailure
    /\ UNCHANGED <<inputVars, readVars, splitVars, status, cwd, procVars, out>>

\* one iteration of while (token != NULL)
SplitLineToken ==
    /\ pc = "tokenize"
    /\ token # NULL
    /\ tokens' = Store(tokens, tok_position, token)
    /\ tok_position' = tok_position + 1
    /\ \/ /\ tok_bufsize' = IF BufferFull(tok_position + 1, tok_bufsize)
                            THEN tok_bufsize + SHH_TOK_BUFSIZE
                            ELSE tok_bufsize
          /\ LET r == strtok(buffer, saveptr)
             IN  /\ token' = r.token
                 /\ buffer' = r.buf
                 /\ saveptr' = r.save
          /\ UNCHANGED <<pc, exitCode, err>>
       \/ /\ BufferFull(tok_position + 1, tok_bufsize)
          /\ AllocationFailure
          /\ UNCHANGED <<tok_bufsize, token, buffer, saveptr>>
    /\ UNCHANGED <<inputVars, position, bufsize, status, cwd, procVars, out>>

\* tokens[position] = NULL; return tokens;
SplitLineReturn ==
    /\ pc = "tokenize"
    /\ token = NULL
    /\ tokens' = Store(tokens, tok_position, NULL)
    /\ pc' = "execute"
    /\ UNCHANGED <<inputVars, readVars, tok_position, tok_bufsize, token,
                   saveptr, status, exitCode, cwd, procVars, out, err>>

(* ---------------------------------------------------------------------- *)
(* shh_execute and the builtins                                            *)
(* ---------------------------------------------------------------------- *)

\* the strings of a NULL-terminated array of pointers into buf
ArgStrings(buf, toks) ==
    [i \in 1..(Len(toks) - 1) |-> CStr(buf, toks[i])]

\* args of shh_loop, as strings
args == ArgStrings(buffer, tokens)

\* the for loop of shh_execute from index i on: the 1-based index of the
\* first builtin whose name compares equal to name, 0 if there is none
RECURSIVE Lookup(_, _)
Lookup(name, i) ==
    IF i > shh_num_builtins THEN 0
    ELSE IF strcmp(name, builtin_str[i]) = 0 THEN i
    ELSE Lookup(name, i + 1)

\* the function shh_execute hands args to
Dispatch(a) ==
    IF a = <<>> THEN "none"
    ELSE IF Lookup(a[1], 1) # 0 THEN builtin_func[Lookup(a[1], 1)]
    ELSE "shh_launch"

\* args[0] == NULL: an empty command was entered
ExecuteEmpty ==
    /\ pc = "execute"
    /\ Dispatch(args) = "none"
    /\ called' = [func |-> "none", args |-> <<>>]
    /\ status' = 1
    /\ pc' = "free"
    /\ UNCHANGED <<inputVars, readVars, splitVars, exitCode, cwd, launchVars,
                   out, err>>

MissingArgument == "shh: expected argument to \"cd\"\n"

\* shh_cd taking the last token instead of args[1]
shh_cd_last(d, a) ==
    IF Len(a) < 2
    THEN [cwd |-> d, err |-> <<MissingArgument>>]
    ELSE IF chdir(d, a[Len(a)]).ret # 0
         THEN [cwd |-> chdir(d, a[Len(a)]).cwd,
               err |-> <<perror("shh", chdir(d, a[Len(a)]).errno)>>]
         ELSE [cwd |-> chdir(d, a[Len(a)]).cwd, err |-> <<>>]

\* shh_cd going to a home directory when no argument is given
shh_cd_home(d, a) ==
    IF Len(a) < 2
    THEN [cwd |-> <<"/", "t", "m", "p">>, err |-> <<>>]
    ELSE IF chdir(d, a[2]).ret # 0
         THEN [cwd |-> chdir(d, a[2]).cwd, err |-> <<perror("shh", chdir(d, a[2]).errno)>>]
         ELSE [cwd |-> chdir(d, a[2]).cwd, err |-> <<>>]

\* what shh_cd(a) does to the working directory d and to standard error
shh_cd(d, a) ==
    IF Len(a) < 2
    THEN [cwd |-> d, err |-> <<MissingArgument>>]
    ELSE IF chdir(d, a[2]).ret # 0
         THEN [cwd |-> chdir(d, a[2]).cwd, err |-> <<perror("shh", chdir(d, a[2]).errno)>>]
         ELSE [cwd |-> chdir(d, a[2]).cwd, err |-> <<>>]

ExecuteCd ==
    /\ pc = "execute"
    /\ Dispatch(args) = "shh_cd"
    /\ called' = [func |-> "shh_cd", args |-> args]
    /\ cwd' = shh_cd(cwd, args).cwd
    /\ err' = err \o shh_cd(cwd, args).err
    /\ status' = 1
    /\ pc' = "free"
    /\ UNCHANGED <<inputVars, readVars, splitVars, exitCode, launchVars, out>>

\* the lines shh_help prints
HelpText ==
    << "AkG's SHH \n",
       "Type program names and arguments, and hit enter.\n",
       "The following are built in:\n" >>
    \o [i \in 1..shh_num_builtins |-> "    " \o Text(builtin_str[i]) \o "\n"]
    \o << "Use the man command for information on other programs.\n" >>

ExecuteHelp ==
    /\ pc = "execute"
    /\ Dispatch(args) = "shh_help"
    /\ called' = [func |-> "shh_help", args |-> args]
    /\ out' = out \o HelpText
    /\ status' = 1
    /\ pc' = "free"
    /\ UNCHANGED <<inputVars, readVars, splitVars, exitCode, cwd, launchVars,
                   err>>

\* the value shh_exit returns
shh_exit == 0

ExecuteExit ==
    /\ pc = "execute"
    /\ Dispatch(args) = "shh_exit"
    /\ called' = [func |-> "shh_exit", args |-> args]
    /\ status' = shh_exit
    /\ pc' = "free"
    /\ UNCHANGED <<inputVars, readVars, splitVars, exitCode, cwd, launchVars,
                   out, err>>

(* ---------------------------------------------------------------------- *)
(* shh_launch, parent side                                                 *)
(* ---------------------------------------------------------------------- *)

\* the child fork() creates: a copy of the interpreter, about to call execvp
ForkedChild ==
    [image |-> "shh", pc |-> "execvp", run |-> "running", wstatus |-> 0,
     reported |-> TRUE, cwd |-> cwd, argv |-> args]

\* shh_launch without the parent's wait: return 1 right after fork
LaunchFork_nowait ==
    /\ pc = "execute"
    /\ Dispatch(args) = "shh_launch"
    /\ called' = [func |-> "shh_launch", args |-> args]
    /\ children' = (nextpid :> ForkedChild) @@ children
    /\ pid' = nextpid
    /\ nextpid' = nextpid + 1
    /\ status' = 1
    /\ pc' = "free"
    /\ UNCHANGED <<inputVars, readVars, splitVars, exitCode, cwd, wstatus,
                   out, err>>

\* pid = fork() returns the new child's pid to the parent
LaunchFork ==
    /\ pc = "execute"
    /\ Dispatch(args) = "shh_launch"
    /\ called' = [func |-> "shh_launch", args |-> args]
    /\ children' = (nextpid :> ForkedChild) @@ children
    /\ pid' = nextpid
    /\ nextpid' = nextpid + 1
    /\ pc' = "waitpid"
    /\ UNCHANGED <<inputVars, readVars, splitVars, status, exitCode, cwd,
                   wstatus, out, err>>

ForkError == "Resource temporarily unavailable"

\* a failed fork treated as fatal: perror("shh"); exit(EXIT_FAILURE);
LaunchForkFail_fatal ==
    /\ pc = "execute"
    /\ Dispatch(args) = "shh_launch"
    /\ called' = [func |-> "shh_launch", args |-> args]
    /\ pid' = -1
    /\ err' = Append(err, perror("shh", ForkError))
    /\ exitCode' = EXIT_FAILURE
    /\ pc' = "exited"
    /\ UNCHANGED <<inputVars, readVars, splitVars, status, cwd, children,
                   nextpid, wstatus, out>>

\* a failed fork that falls into the parent's wait loop
LaunchForkFail_wait ==
    /\ pc = "execute"
    /\ Dispatch(args) = "shh_launch"
    /\ called' = [func |-> "shh_launch", args |-> args]
    /\ pid' = -1
    /\ err' = Append(err, perror("shh", ForkError))
    /\ pc' = "waitpid"
    /\ UNCHANGED <<inputVars, readVars, splitVars, status, exitCode, cwd,
                   children, nextpid, wstatus, out>>

\* pid = fork() returns -1: perror("shh"); return 1;
LaunchForkFail ==
    /\ pc = "execute"
    /\ Dispatch(args) = "shh_launch"
    /\ called' = [func |-> "shh_launch", args |-> args]
    /\ pid' = -1
    /\ err' = Append(err, perror("shh", ForkError))
    /\ status' = 1
    /\ pc' = "free"
    /\ UNCHANGED <<inputVars, readVars, splitVars, exitCode, cwd, children,
                   nextpid, wstatus, out>>

\* the loop condition with the negation of WIFSIGNALED dropped
WaitAgain_signaled(s) == ~WIFEXITED(s) /\ WIFSIGNALED(s)

\* the loop condition testing WIFEXITED only
WaitAgain_exited(s) == ~WIFEXITED(s)

\* the condition of the do-while loop around waitpid
WaitAgain(s) == ~WIFEXITED(s) /\ ~WIFSIGNALED(s)

\* waitpid(pid, &status, WUNTRACED) has something to report about child p
Reportable(p) ==
    /\ p \in DOMAIN children
    /\ \/ children[p].run = "zombie"
       \/ children[p].run = "stopped" /\ ~children[p].reported

\* the process table after waitpid has reported on child p: a terminated
\* child is reaped, a stopped one is not reported again
Reaped(p) ==
    IF children[p].run = "zombie"
    THEN [q \in DOMAIN children \ {p} |-> children[q]]
    ELSE [children EXCEPT ![p].reported = TRUE]

\* one iteration of do { wpid = waitpid(...) } while (...), and return 1
\* when the loop ends
LaunchWait ==
    /\ pc = "waitpid"
    /\ Reportable(pid)
    /\ wstatus' = children[pid].wstatus
    /\ children' = Reaped(pid)
    /\ IF WaitAgain(children[pid].wstatus)
       THEN UNCHANGED <<pc, status>>
       ELSE status' = 1 /\ pc' = "free"
    /\ UNCHANGED <<inputVars, readVars, splitVars, exitCode, cwd, nextpid,
                   pid, called, out, err>>

(* ---------------------------------------------------------------------- *)
(* The child process                                                       *)
(* ---------------------------------------------------------------------- *)

InChild(p) ==
    /\ p \in DOMAIN children
    /\ children[p].image = "shh"
    /\ children[p].pc = "execvp"
    /\ children[p].run = "running"

ExecError == "No such file or directory"

\* execvp(args[0], args) succeeds: the program replaces the image
ChildExec(p) ==
    /\ InChild(p)
    /\ children[p].argv[1] \in Programs
    /\ children' = [children EXCEPT ![p].image = "prog", ![p].pc = "main"]
    /\ UNCHANGED <<inputVars, pc, readVars, splitVars, status, exitCode, cwd,
                   nextpid, pid, wstatus, called, out, err>>

\* the child without exit(EXIT_FAILURE): it falls through to return 1
ChildAfterExecFail_fallthrough(c) == [c EXCEPT !.pc = "return"]

\* the child after execvp has returned -1 and perror has reported it:
\* exit(EXIT_FAILURE)
ChildAfterExecFail(c) ==
    [c EXCEPT !.pc = "exited", !.run = "zombie",
              !.wstatus = W_EXITCODE(EXIT_FAILURE)]

\* execvp(args[0], args) == -1: perror("shh"); exit(EXIT_FAILURE);
ChildExecFail(p) ==
    /\ InChild(p)
    /\ children[p].argv[1] \notin Programs
    /\ err' = Append(err, perror("shh", ExecError))
    /\ children' = [children EXCEPT ![p] = ChildAfterExecFail(children[p])]
    /\ UNCHANGED <<inputVars, pc, readVars, splitVars, status, exitCode, cwd,
                   nextpid, pid, wstatus, called, out>>

\* the launched program ends by itself with an exit code
ChildExit(p, code) ==
    /\ p \in DOMAIN children
    /\ children[p].image = "prog"
    /\ children[p].run = "running"
    /\ children' = [children EXCEPT ![p].pc = "exited", ![p].run = "zombie",
                                    ![p].wstatus = W_EXITCODE(code)]
    /\ UNCHANGED <<inputVars, pc, readVars, splitVars, status, exitCode, cwd,
                   nextpid, pid, wstatus, called, out, err>>

\* a signal terminates the child (a stopped child only acts on SIGKILL)
ChildKill(p, sig) ==
    /\ p \in DOMAIN children
    /\ \/ children[p].run = "running"
       \/ children[p].run = "stopped" /\ sig = 9
    /\ children' = [children EXCEPT ![p].run = "zombie",
                                    ![p].wstatus = W_TERMSIG(sig)]
    /\ UNCHANGED <<inputVars, pc, readVars, splitVars, status, exitCode, cwd,
                   nextpid, pid, wstatus, called, out, err>>

\* a signal stops the child
ChildStop(p, sig) ==
    /\ p \in DOMAIN children
    /\ children[p].run = "running"
    /\ children' = [children EXCEPT ![p].run = "stopped",
                                    ![p].reported = FALSE,
                                    ![p].wstatus = W_STOPCODE(sig)]
    /\ UNCHANGED <<inputVars, pc, readVars, splitVars, status, exitCode, cwd,
                   nextpid, pid, wstatus, called, out, err>>

\* SIGCONT resumes a stopped child
ChildCont(p) ==
    /\ p \in DOMAIN children
    /\ children[p].run = "stopped"
    /\ children' = [children EXCEPT ![p].run = "running", ![p].reported = TRUE]
    /\ UNCHANGED <<inputVars, pc, readVars, splitVars, status, exitCode, cwd,
                   nextpid, pid, wstatus, called, out, err>>

(* ---------------------------------------------------------------------- *)
(* shh_loop: end of an iteration, and main                                 *)
(* ---------------------------------------------------------------------- *)

\* free(line); free(args); while (status): another iteration
LoopAgain ==
    /\ pc = "free"
    /\ status # 0
    /\ buffer' = <<>>
    /\ tokens' = <<>>
    /\ pc' = "prompt"
    /\ UNCHANGED <<inputVars, position, bufsize, tok_position, tok_bufsize,
                   token, saveptr, status, exitCode, cwd, procVars, called,
                   out, err>>

\* main returning a failure status when the last child did not exit with 0
LoopEnd_history ==
    /\ pc = "free"
    /\ status = 0
    /\ buffer' = <<>>
    /\ tokens' = <<>>
    /\ exitCode' = IF wstatus # 0 THEN EXIT_FAILURE ELSE EXIT_SUCCESS
    /\ pc' = "exited"
    /\ UNCHANGED <<inputVars, position, bufsize, tok_position, tok_bufsize,
                   token, saveptr, status, cwd, procVars, out, err>>

\* free(line); free(args); the loop ends, shh_loop returns and main
\* returns EXIT_SUCCESS
LoopEnd ==
    /\ pc = "free"
    /\ status = 0
    /\ buffer' = <<>>
    /\ tokens' = <<>>
    /\ exitCode' = EXIT_SUCCESS
    /\ pc' = "exited"
    /\ UNCHANGED <<inputVars, position, bufsize, tok_position, tok_bufsize,
                   token, saveptr, status, cwd, procVars, called, out, err>>

(* ---------------------------------------------------------------------- *)
(* Specification                                                           *)
(* ---------------------------------------------------------------------- *)

Next ==
    \/ Prompt
    \/ ReadLineEnter
    \/ ReadLineAllocFail
    \/ ReadLineReturn
    \/ ReadLineChar
    \/ SplitLineEnter
    \/ SplitLineAllocFail
    \/ SplitLineToken
    \/ SplitLineReturn
    \/ ExecuteEmpty
    \/ ExecuteCd
    \/ ExecuteHelp
    \/ ExecuteExit
    \/ LaunchFork
    \/ LaunchForkFail
    \/ LaunchWait
    \/ \E p \in DOMAIN children : ChildExec(p)
    \/ \E p \in DOMAIN children : ChildExecFail(p)
    \/ \E p \in DOMAIN children, code \in ExitCodes : ChildExit(p, code)
    \/ \E p \in DOMAIN children, sig \in KillSignals : ChildKill(p, sig)
    \/ \E p \in DOMAIN children, sig \in StopSignals : ChildStop(p, sig)
    \/ \E p \in DOMAIN children : ChildCont(p)
    \/ LoopAgain
    \/ LoopEnd

Spec == Init /\ [][Next]_vars

\* the steps of the interpreter process itself
Interpreter ==
    \/ Prompt
    \/ ReadLineEnter
    \/ ReadLineAllocFail
    \/ ReadLineReturn
    \/ ReadLineChar
    \/ SplitLineEnter
    \/ SplitLineAllocFail
    \/ SplitLineToken
    \/ SplitLineReturn
    \/ ExecuteEmpty
    \/ ExecuteCd
    \/ ExecuteHelp
    \/ ExecuteExit
    \/ LaunchFork
    \/ LaunchForkFail
    \/ LaunchWait
    \/ LoopAgain
    \/ LoopEnd

\* the interpreter is a running process: while it has a step to take (its
\* waitpid has something to report, its input is there) it goes on
FairSpec == Init /\ [][Next]_vars /\ WF_vars(Interpreter)

\* the interpreter run on every short line
SpecTok == InitTok /\ [][Next]_vars

(* ---------------------------------------------------------------------- *)
(* Properties                                                              *)
(* ---------------------------------------------------------------------- *)

cd_name == <<"c", "d">>

help_name == <<"h", "e", "l", "p">>

exit_name == <<"e", "x", "i", "t">>

\* the interpreter takes a step of shh_execute
ExecuteStep == pc = "execute" /\ pc' # "execute"

\* the handler the registry gives for a builtin name
HandlerOf(name) ==
    IF name = cd_name THEN "shh_cd"
    ELSE IF name = help_name THEN "shh_help"
    ELSE "shh_exit"

\* the line shh_read_line returned was empty because the stream had ended
ReadEmptyAtEof == eof /\ position = 0

\* C1: when standard input is at end-of-stream (shh_read_line has returned
\* an empty line because of it) and no exit has been executed, the loop
\* ends and the interpreter exits with status zero: the iteration is not
\* followed by another prompt.
C1_EndOfInputEndsLoop ==
    [][(pc = "free" /\ ReadEmptyAtEof /\ pc' # "free")
         => (pc' = "exited" /\ exitCode' = EXIT_SUCCESS)]_vars

\* C2: shh_execute returns "stop" (0) exactly when the first token is
\* `exit`, whatever follows it; every other line that returns, returns 1.
C2_StopIffExit ==
    pc = "free" =>
        /\ status \in {0, 1}
        /\ status = 0 <=> (args # <<>> /\ args[1] = exit_name)

\* `exit 1` has returned "stop"
C2_Witness ==
    pc = "free" /\ status = 0 /\ Len(args) = 2 /\ args[1] = exit_name

\* the parent's wait loop ends only on a terminated child, with "continue"
ReturnAfterTermination ==
    (pc = "waitpid" /\ pc' # "waitpid")
        => /\ pid \in DOMAIN children
           /\ children[pid].run = "zombie"
           /\ nextpid' = nextpid
           /\ pc' = "free"
           /\ status' = 1

\* C3 as stated: for a first token that is no builtin name, shh_execute
\* creates exactly one child process, and the parent does not return
\* "continue" from shh_launch before that child has terminated.
C3_ExactlyOneChild ==
    [][/\ (ExecuteStep /\ Dispatch(args) = "shh_launch")
            => /\ nextpid' = nextpid + 1
               /\ DOMAIN children' = DOMAIN children \cup {nextpid}
               /\ pc' = "waitpid"
       /\ ReturnAfterTermination]_vars

\* C3 amended: for a first token that is no builtin name, shh_execute
\* either creates exactly one child process and the parent does not return
\* "continue" before that child has terminated, or process creation fails,
\* no child is created and "continue" is returned at once.
C3_OneChildUnlessForkFails ==
    [][/\ (ExecuteStep /\ Dispatch(args) = "shh_launch")
            => \/ /\ nextpid' = nextpid + 1
                  /\ DOMAIN children' = DOMAIN children \cup {nextpid}
                  /\ pid' = nextpid
                  /\ pc' = "waitpid"
               \/ /\ nextpid' = nextpid
                  /\ children' = children
                  /\ pid' = -1
                  /\ err' = Append(err, perror("shh", ForkError))
                  /\ pc' = "free"
                  /\ status' = 1
       /\ ReturnAfterTermination]_vars

\* shh_launch has returned "continue" after its child was killed by a signal
C3_Witness ==
    /\ pc = "free"
    /\ called.func = "shh_launch"
    /\ pid > 0
    /\ pid \notin DOMAIN children
    /\ WIFSIGNALED(wstatus)
    /\ status = 1

\* C4: a report that the child is stopped never ends the wait: while the
\* child is stopped the parent stays in the wait loop, and it leaves the
\* loop only with a status that reports exit or death by signal of a child
\* that has terminated.
C4_StopNeverEndsWait ==
    [][/\ (pc = "waitpid" /\ pid \in DOMAIN children
               /\ children[pid].run = "stopped")
            => pc' = "waitpid"
       /\ (pc = "waitpid" /\ pc' # "waitpid")
            => /\ pid \in DOMAIN children
               /\ children[pid].run = "zombie"
               /\ wstatus' = children[pid].wstatus
               /\ ~WIFSTOPPED(wstatus')
               /\ WIFEXITED(wstatus') \/ WIFSIGNALED(wstatus')]_vars

\* the parent has been told that its child is stopped, and is still waiting
C4_Witness ==
    /\ pc = "waitpid"
    /\ pid \in DOMAIN children
    /\ children[pid].run = "stopped"
    /\ children[pid].reported
    /\ wstatus = W_STOPCODE(19)

\* C5: the interpreter has at most one un-reaped child at any instant, and
\* none whenever shh_launch has returned, a prompt is written or input is
\* read.
C5_AtMostOneChild ==
    /\ Cardinality(DOMAIN children) <= 1
    /\ pc \in {"free", "prompt", "read_line", "getchar", "exited"}
         => DOMAIN children = {}

\* a second line is being read after the child of the first was reaped
C5_Witness ==
    /\ pc = "getchar"
    /\ nextpid > 1
    /\ DOMAIN children = {}

\* C6: a first token that is exactly cd, help or exit makes shh_execute
\* call that builtin's handler with the whole token sequence and create no
\* child; a first token that is none of the three names (differing in case
\* or by extra characters) is handed to shh_launch.
C6_BuiltinDispatch ==
    [][(ExecuteStep /\ args # <<>>)
         => IF args[1] \in {cd_name, help_name, exit_name}
            THEN /\ called' = [func |-> HandlerOf(args[1]), args |-> args]
                 /\ children' = children
                 /\ nextpid' = nextpid
                 /\ pc' = "free"
            ELSE called' = [func |-> "shh_launch", args |-> args]]_vars

\* `cd /tmp /no` was handed to shh_cd with its three tokens
C6_Witness ==
    /\ pc = "free"
    /\ called.func = "shh_cd"
    /\ Len(called.args) = 3
    /\ DOMAIN children = {}

\* the line in the buffer holds delimiters only (or nothing)
BlankLine ==
    /\ buffer # <<>>
    /\ \A i \in 1..(Len(buffer) - 1) : buffer[i] \in {" ", "\t", "\n", "\r", BEL}

\* C7: for a line that is empty or holds delimiters only the tokenizer
\* yields no token, and shh_execute returns "continue" without creating a
\* child, changing the working directory or writing to either stream.
C7_BlankLineNoEffect ==
    /\ [](pc = "execute" /\ BlankLine => tokens = <<NULL>>)
    /\ [][(ExecuteStep /\ BlankLine)
            => /\ pc' = "free"
               /\ status' = 1
               /\ UNCHANGED <<children, nextpid, cwd, out, err>>]_vars

\* a line of four delimiters has been executed
C7_Witness ==
    /\ pc = "free"
    /\ BlankLine
    /\ Len(buffer) = 5
    /\ called.func = "none"
    /\ status = 1

\* C8: cd without argument keeps the working directory and reports the
\* missing argument; cd <dir> enters the directory tokens[1] names when it
\* can be entered, and otherwise keeps the working directory and reports
\* the OS error; later tokens play no part.
C8_Cd ==
    [][(ExecuteStep /\ args # <<>> /\ args[1] = cd_name)
         => IF Len(args) = 1
            THEN cwd' = cwd /\ err' = Append(err, MissingArgument)
            ELSE IF Resolve(cwd, args[2]) \in Dirs
            THEN cwd' = Resolve(cwd, args[2]) /\ err' = err
            ELSE /\ cwd' = cwd
                 /\ err' = Append(err, "shh: No such file or directory\n")]_vars

\* `cd /tmp /no` has changed the directory to /tmp
C8_Witness ==
    /\ pc = "free"
    /\ called.func = "shh_cd"
    /\ Len(args) = 3
    /\ cwd = args[2]
    /\ cwd # InitialDir
    /\ err = <<>>

\* C9: errors other than allocation failure are not fatal: an iteration in
\* which an error was reported returns "continue", "continue" leads to the
\* next prompt, and the interpreter ends only through `exit` or an
\* allocation failure.
C9_ErrorsNotFatal ==
    /\ []((pc = "free" /\ err # <<>>) => status = 1)
    /\ [](pc = "exited" =>
            \/ exitCode = EXIT_SUCCESS /\ called.func = "shh_exit"
            \/ /\ exitCode = EXIT_FAILURE
               /\ err # <<>>
               /\ err[Len(err)] = AllocationError)
    /\ [][(pc = "free" /\ status = 1 /\ pc' # "free")
            => (pc' = "prompt" /\ exitCode' = -1)]_vars

\* the prompt has been written again after an iteration that reported an
\* error
C9_Witness ==
    /\ pc = "read_line"
    /\ err # <<>>
    /\ out = <<"> ">>
    /\ exitCode = -1

C12_CwdOnlyByCd ==
    [][/\ (cwd' # cwd)
            => /\ ExecuteStep
               /\ Len(args) >= 2
               /\ args[1] = cd_name
               /\ Resolve(cwd, args[2]) \in Dirs
               /\ cwd' = Resolve(cwd, args[2])
       /\ \A p \in DOMAIN children' \ DOMAIN children :
             /\ cwd' = cwd
             /\ children'[p].cwd = cwd]_vars

\* after `cd /tmp /no`, ls runs in /tmp
C12_Witness ==
    \E p \in DOMAIN children :
        /\ children[p].image = "prog"
        /\ children[p].cwd = <<"/", "t", "m", "p">>
        /\ cwd = <<"/", "t", "m", "p">>

\* C14: when the loop ends through `exit`, the interpreter exits with
\* status zero, whatever the earlier commands did.
C14_ExitStatusZero ==
    /\ []((pc = "exited" /\ status = 0) => exitCode = EXIT_SUCCESS)
    /\ [][(pc = "free" /\ status = 0 /\ pc' # "free")
            => (pc' = "exited" /\ exitCode' = EXIT_SUCCESS)]_vars

\* the interpreter has exited through `exit` after a command whose child
\* did not exit with 0
C14_Witness ==
    /\ pc = "exited"
    /\ called.func = "shh_exit"
    /\ exitCode = EXIT_SUCCESS
    /\ nextpid > 1
    /\ wstatus # 0

\* C16: shh_read_line returns the characters of standard input from the read
\* position at its call up to, and without, the first newline or the end of
\* the stream; it consumes the newline; at the end of the stream it returns
\* what it has accumulated, which may be nothing.
C16_ReadLine ==
    /\ [](pc = "getchar" =>
            /\ position < inPos
            /\ buffer = SubSeq(stdin, inPos - position, inPos - 1)
            /\ \A i \in 1..Len(buffer) : buffer[i] # "\n")
    /\ [][/\ (pc = "read_line" /\ pc' = "getchar")
               => (position' = 0 /\ inPos' = inPos)
          /\ (pc = "getchar" /\ pc' = "split_line")
               => /\ buffer' = SubSeq(stdin, inPos - position, inPos - 1) \o <<NUL>>
                  /\ IF inPos <= Len(stdin)
                     THEN stdin[inPos] = "\n" /\ inPos' = inPos + 1 /\ eof' = eof
                     ELSE inPos' = inPos /\ eof']_vars

\* a second line, cut by the end of the stream, has been returned
C16_Witness ==
    /\ pc = "split_line"
    /\ eof
    /\ position > 0
    /\ inPos - position > 1
    /\ CStr(buffer, 1) = SubSeq(stdin, inPos - position, Len(stdin))

\* C17: when process creation fails, shh_launch reports the failure, waits
\* for no process, creates no child and returns "continue".
C17_ForkFailure ==
    /\ [](pc = "waitpid" => pid > 0)
    /\ [][(ExecuteStep /\ args # <<>>
             /\ args[1] \notin {cd_name, help_name, exit_name} /\ pid' = -1)
            => /\ err' = Append(err, "shh: Resource temporarily unavailable\n")
               /\ children' = children
               /\ nextpid' = nextpid
               /\ wstatus' = wstatus
               /\ pc' = "free"
               /\ status' = 1]_vars

\* shh_launch has returned after a failed fork
C17_Witness ==
    /\ pc = "free"
    /\ called.func = "shh_launch"
    /\ pid = -1
    /\ DOMAIN children = {}
    /\ err = <<"shh: Resource temporarily unavailable\n">>
    /\ status = 1

\* C18: an allocation failure ends the interpreter at once with the
\* diagnostic and a failure status, nothing is done afterwards, and a line
\* or token sequence that is tokenized or executed is held whole by its
\* buffer.
C18_AllocationFailureFatal ==
    /\ [][(err' = Append(err, "shh: allocation error\n"))
            => (pc' = "exited" /\ exitCode' = EXIT_FAILURE)]_vars
    /\ [][pc # "exited"]_vars
    /\ [](exitCode = EXIT_FAILURE =>
            (pc = "exited" /\ err # <<>> /\ err[Len(err)] = "shh: allocation error\n"))
    /\ [](pc \in {"split_line", "tokenize", "execute"} =>
            (Len(buffer) = position + 1 /\ Len(buffer) <= bufsize))
    /\ [](pc = "execute" =>
            (Len(tokens) = tok_position + 1 /\ Len(tokens) <= tok_bufsize))

\* the growth of the line buffer has failed and the interpreter has ended
C18_Witness ==
    /\ pc = "exited"
    /\ exitCode = EXIT_FAILURE
    /\ position = SHH_RL_BUFSIZE
    /\ bufsize = SHH_RL_BUFSIZE

\* C19: every write buffer[position] of shh_read_line and tokens[position]
\* of shh_split_line is made with position below the capacity of the
\* moment, also when the length reaches a multiple of the increment.
C19_WritesInBounds ==
    [][/\ (pc = "getchar" /\ buffer' # buffer)
            => /\ Len(buffer) = position
               /\ Len(buffer') = position + 1
               /\ position < bufsize
       /\ (pc = "tokenize" /\ tokens' # tokens)
            => /\ Len(tokens) = tok_position
               /\ Len(tokens') = tok_position + 1
               /\ tok_position < tok_bufsize]_vars

\* 1024 tokens are followed by the sentinel in a token array grown once
C19_Witness ==
    /\ pc = "execute"
    /\ tok_position = SHH_TOK_BUFSIZE
    /\ Len(tokens) = SHH_TOK_BUFSIZE + 1
    /\ tok_bufsize = 2 * SHH_TOK_BUFSIZE
    /\ bufsize = 2 * SHH_RL_BUFSIZE

\* C11: once the child of an external command has terminated, whatever its
\* exit status, shh_launch returns "continue" and the interpreter writes the
\* prompt again.
C11_PromptAfterChild ==
    /\ (pc = "waitpid" /\ pid \in DOMAIN children
          /\ children[pid].run = "zombie")
         ~> (pc = "read_line" /\ out # <<>> /\ out[Len(out)] = "> ")
    /\ [][(pc = "waitpid" /\ pc' # "waitpid") => status' = 1]_vars

\* the prompt has been written after a child that ended with a failure code
\* because its program could not be resolved
C11_Witness ==
    /\ pc = "read_line"
    /\ called.func = "shh_launch"
    /\ pid > 0
    /\ wstatus = W_EXITCODE(EXIT_FAILURE)
    /\ err = <<"shh: No such file or directory\n">>
    /\ out = <<"> ">>

\* the line shh_read_line returned last, as it stands in standard input
LineRead ==
    IF eof THEN SubSeq(stdin, inPos - position, inPos - 1)
    ELSE SubSeq(stdin, inPos - 1 - position, inPos - 2)

Letters == {"a", "b"}

Delimiters == {" ", "\t", "\n", "\r", BEL}

\* the non-empty words over Letters of length n or less
RECURSIVE Words(_)
Words(n) ==
    IF n <= 0 THEN {}
    ELSE IF n = 1 THEN { <<c>> : c \in Letters }
    ELSE Words(n - 1) \cup { Append(w, c) : w \in Words(n - 1) \ Words(n - 2), c \in Letters }

\* the tokens of toks joined with single spaces
RECURSIVE Join(_)
Join(toks) ==
    IF toks = <<>> THEN <<>>
    ELSE IF Len(toks) = 1 THEN toks[1]
    ELSE toks[1] \o <<" ">> \o Join(Tail(toks))

\* the sequences of words whose join has n characters or less
RECURSIVE TokenLists(_)
TokenLists(n) ==
    IF n <= 0 THEN { <<>> }
    ELSE { <<>> } \cup
         UNION { { <<w>> \o rest : rest \in TokenLists(n - Len(w) - 1) } : w \in Words(n) }

\* every such sequence of tokens with the line that joins it
RoundTrips == { <<Join(toks), toks>> : toks \in TokenLists(MaxLen) }

\* C13: a line made of non-empty, delimiter-free tokens joined with single
\* spaces is split into exactly these tokens, in order, followed by the end
\* sentinel.
C13_RoundTrip ==
    pc = "execute" =>
        \A rt \in RoundTrips :
            LineRead = rt[1] =>
                /\ args = rt[2]
                /\ Len(tokens) = Len(rt[2]) + 1
                /\ tokens[Len(tokens)] = NULL

\* the line "a b a" has been split
C13_Witness ==
    /\ pc = "execute"
    /\ LineRead = <<"a", " ", "b", " ", "a">>
    /\ <<LineRead, args>> \in RoundTrips
    /\ Len(args) = 3

\* the places in line l where a maximal run of non-delimiters starts
RunStarts(l) ==
    { i \in 1..Len(l) : l[i] \notin Delimiters /\ (i = 1 \/ l[i - 1] \in Delimiters) }

\* where the run of non-delimiters that holds index i of l ends
RunEnd(l, i) ==
    CHOOSE j \in i..Len(l) :
        /\ \A k \in i..j : l[k] \notin Delimiters
        /\ j = Len(l) \/ l[j + 1] \in Delimiters

\* C15: shh_split_line returns the maximal runs of non-delimiter characters
\* of the line, each once, from left to right, followed by the sentinel; no
\* token is empty or holds a delimiter; there is no token exactly when the
\* line is empty or all delimiters.
C15_MaximalRuns ==
    pc = "execute" =>
        /\ Len(tokens) = Len(args) + 1
        /\ tokens[Len(tokens)] = NULL
        /\ Len(args) = Cardinality(RunStarts(LineRead))
        /\ \A k \in 1..Len(args) :
              /\ tokens[k] \in RunStarts(LineRead)
              /\ k > 1 => tokens[k - 1] < tokens[k]
              /\ args[k] = SubSeq(LineRead, tokens[k], RunEnd(LineRead, tokens[k]))
              /\ args[k] # <<>>
              /\ \A i \in 1..Len(args[k]) : args[k][i] \notin Delimiters
        /\ args = <<>> <=> (\A i \in 1..Len(LineRead) : LineRead[i] \in Delimiters)

\* a line with a leading delimiter and two delimiters in a row has been
\* split into its two tokens
C15_Witness ==
    /\ pc = "execute"
    /\ LineRead = <<" ", "a", "\t", BEL, "b">>
    /\ args = << <<"a">>, <<"b">> >>

====
